---- MODULE Spec2Model ----
(***************************************************************************)
(* ShortyQ: the three-layer URL envelope engine (constructor, noise        *)
(* generator, encryptUrl, decryptUrl, createShortUrl) as a state machine.  *)
(*                                                                         *)
(* Conventions of the model                                                *)
(*  - A JavaScript string is a sequence of characters; a character is a    *)
(*    natural number.  0..15 are the hex digits '0'..'f', larger numbers   *)
(*    are other characters.                                                *)
(*  - An optional value (an option that may be absent, an envelope field   *)
(*    that may be missing) is <<>> when absent and <<v>> when present.     *)
(*  - The library primitives are symbolic: an AES ciphertext is the record *)
(*    of its plaintext, passphrase and random salt; PBKDF2 and SHA3 are    *)
(*    records of their inputs.  Decrypting under another passphrase gives  *)
(*    unauthenticated garbage: any of the outcomes CryptoJS can produce.   *)
(*  - Math.sin is a table over the phases seed*i + timestamp the model     *)
(*    uses: SinTable holds floor(sin(x) * 10000) for each of them.         *)
(***************************************************************************)
EXTENDS Integers, Sequences, FiniteSets, TLC

\* ------------------------------------------------------------------------
\* Program constants
\* ------------------------------------------------------------------------
MAX_URL_LENGTH == 4096
MIN_URL_LENGTH == 4
MAX_CODE_LENGTH == 100
DEFAULT_SALT_ROUNDS == 10
DEFAULT_URL_LENGTH == 8
NOISE_BYTES == 32
IV_BYTES == 16
BYTE_MOD == 256
SALT_BYTES == 8

\* ------------------------------------------------------------------------
\* Bounds of the model
\* ------------------------------------------------------------------------
\* Date.now() takes the values 0..MaxClock
MaxClock == 1
\* at most MaxIssued envelopes are created in one behaviour
MaxIssued == 2

\* ------------------------------------------------------------------------
\* Small helpers
\* ------------------------------------------------------------------------
Present(opt) == opt # <<>>

Value(opt) == opt[1]

Max(a, b) == IF a >= b THEN a ELSE b

\* JavaScript `a || b` on numbers: b when a is absent (undefined) or 0
JsOr(opt, dflt) == IF Present(opt) /\ Value(opt) # 0 THEN Value(opt) ELSE dflt

\* ------------------------------------------------------------------------
\* Math.sin, tabulated
\* ------------------------------------------------------------------------
\* SinTable[seed][i + 1][t + 1] = floor(sin(seed * i + t) * 10000), for the
\* seeds of the model, i in 0..31 and the clock values t in 0..4
SinTable ==
    (0 :> <<
        <<0, 8414, 9092, 1411, -7569>>, <<0, 8414, 9092, 1411, -7569>>, <<0, 8414, 9092, 1411, -7569>>,
        <<0, 8414, 9092, 1411, -7569>>, <<0, 8414, 9092, 1411, -7569>>, <<0, 8414, 9092, 1411, -7569>>,
        <<0, 8414, 9092, 1411, -7569>>, <<0, 8414, 9092, 1411, -7569>>, <<0, 8414, 9092, 1411, -7569>>,
        <<0, 8414, 9092, 1411, -7569>>, <<0, 8414, 9092, 1411, -7569>>, <<0, 8414, 9092, 1411, -7569>>,
        <<0, 8414, 9092, 1411, -7569>>, <<0, 8414, 9092, 1411, -7569>>, <<0, 8414, 9092, 1411, -7569>>,
        <<0, 8414, 9092, 1411, -7569>>, <<0, 8414, 9092, 1411, -7569>>, <<0, 8414, 9092, 1411, -7569>>,
        <<0, 8414, 9092, 1411, -7569>>, <<0, 8414, 9092, 1411, -7569>>, <<0, 8414, 9092, 1411, -7569>>,
        <<0, 8414, 9092, 1411, -7569>>, <<0, 8414, 9092, 1411, -7569>>, <<0, 8414, 9092, 1411, -7569>>,
        <<0, 8414, 9092, 1411, -7569>>, <<0, 8414, 9092, 1411, -7569>>, <<0, 8414, 9092, 1411, -7569>>,
        <<0, 8414, 9092, 1411, -7569>>, <<0, 8414, 9092, 1411, -7569>>, <<0, 8414, 9092, 1411, -7569>>,
        <<0, 8414, 9092, 1411, -7569>>, <<0, 8414, 9092, 1411, -7569>>>>)
    @@ (42 :> <<
        <<0, 8414, 9092, 1411, -7569>>, <<-9166, -8318, 177, 8509, 9017>>, <<7331, -1761, -9235, -8219, 353>>,
        <<3299, 9726, 7210, -1935, -9302>>, <<-9972, -6020, 3466, 9765, 7086>>, <<4677, -4911, -9984, -5878, 3631>>,
        <<6230, 9948, 4519, -5064, -9993>>, <<-9662, -3048, 6367, 9928, 4361>>, <<1498, -7511, -9614, -2879, 6503>>,
        <<8462, 9055, 1323, -7626, -9564>>, <<-8269, 265, 8555, 8979, 1147>>, <<-1849, -9269, -8168, 442, 8645>>,
        <<9746, 7148, -2022, -9334, -8064>>, <<-5949, 3549, 9784, 7023, -2195>>, <<-4988, -9989, -5806, 3714, 9819>>,
        <<9938, 4440, -5141, -9996, -5661>>, <<-2964, 6435, 9917, 4281, -5292>>, <<-7569, -9590, -2794, 6570, 9893>>,
        <<9017, 1235, -7683, -9538, -2624>>, <<354, 8601, 8939, 1059, -7796>>, <<-9302, -8116, 531, 8689, 8858>>,
        <<7086, -2109, -9365, -8011, 708>>, <<3632, 9802, 6960, -2282, -9426>>, <<-9993, -5734, 3796, 9836, 6831>>,
        <<4360, -5217, -9998, -5588, 3960>>, <<6503, 9905, 4200, -5367, -10000>>, <<-9564, -2709, 6637, 9880, 4039>>,
        <<1146, -7740, -9511, -2538, 6768>>, <<8645, 8899, 970, -7851, -9455>>, <<-8064, 620, 8733, 8817, 794>>,
        <<-2196, -9396, -7958, 796, 8818>>, <<9819, 6896, -2368, -9455, -7850>>>>)
    @@ (43 :> <<
        <<0, 8414, 9092, 1411, -7569>>, <<-8318, 177, 8509, 9017, 1235>>, <<-9235, -8219, 353, 8600, 8939>>,
        <<-1935, -9302, -8117, 530, 8689>>, <<7086, -2109, -9365, -8012, 707>>, <<9802, 6960, -2281, -9426, -7905>>,
        <<3796, 9835, 6832, -2453, -9483>>, <<-5588, 3959, 9866, 6702, -2625>>, <<-10000, -5440, 4121, 9893, 6569>>,
        <<-5515, -10000, -5291, 4282, 9917>>, <<3877, -5662, -9996, -5140, 4441>>, <<9819, 3713, -5807, -9989, -4987>>,
        <<7024, 9784, 3548, -5950, -9978>>, <<-2021, 7149, 9746, 3382, -6091>>, <<-9268, -1848, 7271, 9705, 3215>>,
        <<-8269, -9201, -1673, 7392, 9661>>, <<87, -8367, -9130, -1499, 7510>>, <<8366, -90, -8463, -9056, -1323>>,
        <<9200, 8267, -267, -8556, -8980>>, <<1848, 9268, 8167, -444, -8646>>, <<-7149, 2022, 9333, 8063, -620>>,
        <<-9785, -7024, 2195, 9395, 7957>>, <<-3715, -9820, -6897, 2367, 9454>>, <<5660, -3879, -9852, -6768, 2539>>,
        <<9999, 5513, -4042, -9881, -6636>>, <<5440, 9999, 5364, -4203, -9907>>, <<-3959, 5588, 9997, 5214, -4363>>,
        <<-9836, -3796, 5734, 9992, 5062>>, <<-6962, -9803, -3631, 5878, 9983>>, <<2106, -7088, -9766, -3466, 6020>>,
        <<9300, 1933, -7212, -9727, -3299>>, <<8218, 9234, 1759, -7333, -9684>>>>)
    @@ (10838744 :> <<
        <<0, 8414, 9092, 1411, -7569>>, <<-9166, -8318, 177, 8509, 9017>>, <<7331, -1761, -9235, -8219, 353>>,
        <<3299, 9726, 7210, -1935, -9302>>, <<-9972, -6020, 3466, 9765, 7086>>, <<4677, -4911, -9984, -5878, 3631>>,
        <<6230, 9948, 4519, -5064, -9993>>, <<-9662, -3048, 6367, 9928, 4361>>, <<1498, -7511, -9614, -2879, 6503>>,
        <<8462, 9055, 1323, -7626, -9564>>, <<-8269, 265, 8555, 8979, 1147>>, <<-1849, -9269, -8168, 442, 8645>>,
        <<9746, 7148, -2022, -9334, -8064>>, <<-5949, 3549, 9784, 7023, -2195>>, <<-4988, -9989, -5806, 3714, 9819>>,
        <<9938, 4440, -5141, -9996, -5661>>, <<-2964, 6435, 9917, 4281, -5292>>, <<-7569, -9590, -2794, 6570, 9893>>,
        <<9017, 1235, -7683, -9538, -2624>>, <<354, 8601, 8939, 1059, -7796>>, <<-9302, -8116, 531, 8689, 8858>>,
        <<7086, -2109, -9365, -8011, 708>>, <<3632, 9802, 6960, -2282, -9426>>, <<-9993, -5734, 3796, 9836, 6831>>,
        <<4360, -5217, -9998, -5588, 3960>>, <<6503, 9905, 4200, -5367, -10000>>, <<-9564, -2709, 6637, 9880, 4039>>,
        <<1146, -7740, -9511, -2538, 6768>>, <<8645, 8899, 970, -7851, -9455>>, <<-8064, 620, 8733, 8817, 794>>,
        <<-2196, -9396, -7958, 796, 8818>>, <<9819, 6896, -2368, -9455, -7850>>>>)

\* floor(v % 256) for the real v = sin(x) * 10000 given f = floor(v).  The
\* JavaScript % keeps the sign of the dividend; v is never a negative
\* integer (sin(x) * 10000 is an integer only for x = 0).
JsRemFloor(f) == IF f >= 0 THEN f % BYTE_MOD ELSE -(((-f) - 1) % BYTE_MOD) - 1

\* the store of a Uint8ClampedArray: values outside 0..255 are clamped
ToUint8Clamped(r) == IF r < 0 THEN 0 ELSE IF r >= BYTE_MOD THEN BYTE_MOD - 1 ELSE r

\* a store into a Uint8Array: the value modulo 2^8
ToUint8(r) == r % BYTE_MOD

\* Math.floor(Math.sin(seed * i + timestamp) * 10000 % 256), stored in a Uint8Array
NoiseByte(seed, i, timestamp) ==
    ToUint8(JsRemFloor(SinTable[seed][i + 1][timestamp + 1]))

\* Buffer.from(bytes).toString("hex"): two hex digits per byte
HexOfBytes(bytes) ==
    [k \in 1..(2 * Len(bytes)) |->
        IF k % 2 = 1 THEN bytes[(k + 1) \div 2] \div 16 ELSE bytes[k \div 2] % 16]

\* generateQuantumNoise(): 32 bytes, byte i from sin(quantumSeed * i + timestamp)
generateQuantumNoise(seed, timestamp) ==
    HexOfBytes([k \in 1..NOISE_BYTES |-> NoiseByte(seed, k - 1, timestamp)])

\* generateQuantumNoise tabulated over the seeds and clock values of the
\* model: NoiseAt(seed, t) = generateQuantumNoise(seed, t)
NoiseBlocks ==
    [seed \in DOMAIN SinTable |-> [t \in 0..MaxClock |-> generateQuantumNoise(seed, t)]]

NoiseAt(seed, timestamp) == NoiseBlocks[seed][timestamp]

\* ------------------------------------------------------------------------
\* The constructor (options -> configuration or a construction error)
\* ------------------------------------------------------------------------
Options(sr, ul, qs) == [saltRounds |-> sr, urlLength |-> ul, quantumSeed |-> qs]

ERR_MIN_LENGTH == "URL length must be at least 4 characters"

ERR_MAX_LENGTH == "URL length cannot exceed 100 characters"

\* new ShortyQ(options); rnd is the value of Math.floor(Math.random() * 1000)
Constructor(options, rnd) ==
    LET saltRounds == JsOr(options.saltRounds, DEFAULT_SALT_ROUNDS)
        urlLength == JsOr(options.urlLength, DEFAULT_URL_LENGTH)
        quantumSeed == JsOr(options.quantumSeed, rnd)
    IN  IF urlLength < MIN_URL_LENGTH
        THEN [ok |-> FALSE, error |-> ERR_MIN_LENGTH, engine |-> <<>>]
        ELSE IF urlLength > MAX_CODE_LENGTH
        THEN [ok |-> FALSE, error |-> ERR_MAX_LENGTH, engine |-> <<>>]
        ELSE [ok |-> TRUE, error |-> "",
              engine |-> <<[saltRounds |-> saltRounds,
                            urlLength |-> urlLength,
                            quantumSeed |-> quantumSeed]>>]

\* ------------------------------------------------------------------------
\* Texts, random material and the symbolic library primitives
\* ------------------------------------------------------------------------
\* a literal text (an arbitrary string a caller supplies)
Raw(s) == [k |-> "raw", s |-> s]

EmptyText == Raw(<<>>)

\* some non-empty text that is valid UTF-8 by chance: what decrypting under
\* a wrong passphrase can produce
GarbageText == [k |-> "garbage"]

IsEmptyText(x) == x.k = "raw" /\ x.s = <<>>

\* digit p (0 = least significant) of r written in base b
Digit(r, p, b) == IF p >= 5 THEN 0 ELSE (r \div (b ^ p)) % b

\* CryptoJS.lib.WordArray.random(n).toString(): 2n hex digits, here the
\* digits of the draw r (distinct draws give distinct strings)
RandomHex(n, r) == [k \in 1..(2 * n) |-> Digit(r, 2 * n - k, 16)]

\* RandomHex tabulated over the draws of the model
RandomIvs == [r \in 0..(4 * MaxIssued + 4) |-> RandomHex(IV_BYTES, r)]

RandomSalts == [r \in 0..(4 * MaxIssued + 4) |-> RandomHex(SALT_BYTES, r)]

\* a passphrase that is a plain string
Pass(s) == [k |-> "pass", s |-> s]

\* WordArray.toString() of a derived key: its hex string (64 or 128 digits)
KeyToString(key) == [k |-> "hex", of |-> key]

\* for (i = 1; i < iterations; i++): fewer than one iteration runs as one
Iterations(n) == Max(n, 1)

\* CryptoJS.PBKDF2(password, salt, {keySize: 256/32, iterations})
PBKDF2(password, salt, iterations) ==
    [k |-> "pbkdf2", password |-> password, salt |-> salt,
     iterations |-> Iterations(iterations)]

\* noise + key.toString(): the key string has a fixed length, so the
\* concatenation determines both parts
Concat(noise, keyString) == [head |-> noise, tail |-> keyString]

\* CryptoJS.SHA3(message)
SHA3(message) == [k |-> "sha3", message |-> message]

\* CryptoJS.AES.encrypt(plaintext, passphrase).toString(): the OpenSSL
\* salted format; key and IV derive from passphrase and a random salt (an
\* iv option is overwritten by the derived one)
AesEncrypt(plaintext, passphrase, salt) ==
    [k |-> "aes", pt |-> plaintext, key |-> passphrase,
     salt |-> RandomSalts[salt]]

Returned(v) == [k |-> "return", v |-> v]

Thrown(e) == [k |-> "throw", v |-> e]

\* the outcomes of decrypting under a key the ciphertext was not made with:
\* the unpadded bytes are not valid UTF-8 (toString throws), or the padding
\* byte removes everything (empty text), or what is left decodes (garbage)
Garbled == {Thrown("Malformed UTF-8 data"), Returned(EmptyText), Returned(GarbageText)}

\* Base64.parse: 6 bits per character
DecodedBytes(s) == (Len(s) * 6) \div 8

\* CryptoJS.AES.decrypt(ciphertext, passphrase).toString(CryptoJS.enc.Utf8)
AesDecrypt(ciphertext, passphrase) ==
    IF ciphertext.k = "aes"
    THEN IF ciphertext.key = passphrase
         THEN {Returned(ciphertext.pt)}
         ELSE Garbled
    ELSE IF ciphertext.k = "raw" /\ DecodedBytes(ciphertext.s) = 0
    THEN {Returned(EmptyText)}
    ELSE Garbled

\* ------------------------------------------------------------------------
\* URL arguments of createShortUrl
\* ------------------------------------------------------------------------
\* a string argument: its text, its length in UTF-16 units, whether
\* new URL(text) parses it, and whether it is well-formed UTF-16 (no lone
\* surrogate; encodeURIComponent throws URIError on a lone surrogate)
Str(text, len, parses, usv) ==
    [k |-> "string", text |-> text, len |-> len, parses |-> parses, usv |-> usv]

NullUrl == [k |-> "null", text |-> "", len |-> 0, parses |-> FALSE, usv |-> TRUE]

UndefinedUrl == [k |-> "undefined", text |-> "", len |-> 0, parses |-> FALSE, usv |-> TRUE]

EmptyUrl == Str("", 0, FALSE, TRUE)

ExampleUrl == Str("https://example.com", 19, TRUE, TRUE)

QueryUrl == Str("https://example.com/page?id=123#section1", 40, TRUE, TRUE)

UnicodeUrl == Str("https://example.com/unicode/path/<rocket>/<cjk>/<cyrillic>", 43, TRUE, TRUE)

SurrogateUrl == Str("https://example.com/<lone surrogate D800>", 21, TRUE, FALSE)

NotAUrl == Str("not-a-valid-url", 15, FALSE, TRUE)

\* "https://example.com/" followed by n times "a"
LongUrl(len) == Str("https://example.com/aaa...", len, TRUE, TRUE)

\* n times "a": no scheme, does not parse
LongNotAUrl(len) == Str("aaa...", len, FALSE, TRUE)

\* JavaScript truthiness of the argument: a non-empty string
Truthy(url) == url.k = "string" /\ url.len > 0

ERR_EMPTY == "URL cannot be empty"

ERR_FORMAT == "Invalid URL format"

ERR_TOO_LONG == "URL length cannot exceed 4096 characters"

ERR_URI == "URI malformed"

\* the checks with the length compared before the URL is parsed
ValidateUrlLengthFirst(url) ==
    IF ~Truthy(url) THEN ERR_EMPTY
    ELSE IF url.len > MAX_URL_LENGTH THEN ERR_TOO_LONG
    ELSE IF ~url.parses THEN ERR_FORMAT
    ELSE ""

\* the three checks of createShortUrl, in order; "" when all pass
ValidateUrl(url) ==
    IF ~Truthy(url) THEN ERR_EMPTY
    ELSE IF ~url.parses THEN ERR_FORMAT
    ELSE IF url.len > MAX_URL_LENGTH THEN ERR_TOO_LONG
    ELSE ""

\* ------------------------------------------------------------------------
\* encryptUrl, generateShortCode, createShortUrl
\* ------------------------------------------------------------------------
Envelope(data, noise, iv) == [k |-> "object", data |-> data, noise |-> noise, iv |-> iv]

\* encryptUrl returning the noise blocks joined in the order layer 3,
\* layer 2, layer 1
encryptUrlReversed(cfg, url, t1, t2, t3, r) ==
    LET layer1Noise == NoiseAt(cfg.quantumSeed, t1)
        layer2Noise == NoiseAt(cfg.quantumSeed, t2)
        layer3Noise == NoiseAt(cfg.quantumSeed, t3)
        iv == RandomIvs[r]
        encrypted1 == AesEncrypt(url, Pass(layer1Noise), r + 1)
        secondKey == PBKDF2(layer2Noise, iv, cfg.saltRounds)
        encrypted2 == AesEncrypt(encrypted1, KeyToString(secondKey), r + 2)
        finalKey == SHA3(Concat(layer3Noise, KeyToString(secondKey)))
        encrypted3 == AesEncrypt(encrypted2, KeyToString(finalKey), r + 3)
    IN  Envelope(<<encrypted3>>, <<layer3Noise \o layer2Noise \o layer1Noise>>, <<iv>>)

\* encryptUrl(url): t1, t2, t3 are the three Date.now() readings, r the
\* first of four fresh random draws (iv and the three AES salts)
encryptUrl(cfg, url, t1, t2, t3, r) ==
    LET layer1Noise == NoiseAt(cfg.quantumSeed, t1)
        layer2Noise == NoiseAt(cfg.quantumSeed, t2)
        layer3Noise == NoiseAt(cfg.quantumSeed, t3)
        iv == RandomIvs[r]
        encrypted1 == AesEncrypt(url, Pass(layer1Noise), r + 1)
        secondKey == PBKDF2(layer2Noise, iv, cfg.saltRounds)
        encrypted2 == AesEncrypt(encrypted1, KeyToString(secondKey), r + 2)
        finalKey == SHA3(Concat(layer3Noise, KeyToString(secondKey)))
        encrypted3 == AesEncrypt(encrypted2, KeyToString(finalKey), r + 3)
    IN  Envelope(<<encrypted3>>, <<layer1Noise \o layer2Noise \o layer3Noise>>, <<iv>>)

\* nanoid(size): size characters of the 64-character alphabet, here the
\* base-64 digits of the draw
NanoId(size, draw) == [k \in 1..size |-> Digit(draw, size - k, 64)]

\* NanoId tabulated over the accepted sizes and the draws 0 and 1
NanoIds ==
    [size \in MIN_URL_LENGTH..MAX_CODE_LENGTH |-> [draw \in 0..1 |-> NanoId(size, draw)]]

generateShortCode(cfg, draw) == NanoIds[cfg.urlLength][draw]

\* createShortUrl encrypting before it checks the URL
createShortUrlEncryptFirst(cfg, url, t1, t2, t3, r, draw) ==
    IF ValidateUrl(url) # ""
    THEN [ok |-> FALSE, error |-> ValidateUrl(url), result |-> <<>>,
          noiseCalls |-> 3, randoms |-> 4]
    ELSE IF ~url.usv
    THEN [ok |-> FALSE, error |-> ERR_URI, result |-> <<>>,
          noiseCalls |-> 3, randoms |-> 1]
    ELSE [ok |-> TRUE, error |-> "",
          result |-> <<[shortCode |-> generateShortCode(cfg, draw),
                        encryptedData |-> encryptUrl(cfg, url, t1, t2, t3, r)]>>,
          noiseCalls |-> 3, randoms |-> 4]

\* createShortUrl(originalUrl) and what it consumed: the number of
\* generateQuantumNoise calls and of random draws made before it returned
\* or threw
createShortUrl(cfg, url, t1, t2, t3, r, draw) ==
    IF ValidateUrl(url) # ""
    THEN [ok |-> FALSE, error |-> ValidateUrl(url), result |-> <<>>,
          noiseCalls |-> 0, randoms |-> 0]
    ELSE IF ~url.usv
    THEN [ok |-> FALSE, error |-> ERR_URI, result |-> <<>>,
          noiseCalls |-> 3, randoms |-> 1]
    ELSE [ok |-> TRUE, error |-> "",
          result |-> <<[shortCode |-> generateShortCode(cfg, draw),
                        encryptedData |-> encryptUrl(cfg, url, t1, t2, t3, r)]>>,
          noiseCalls |-> 3, randoms |-> 4]

\* ------------------------------------------------------------------------
\* decryptUrl
\* ------------------------------------------------------------------------
NullEnvelope == [k |-> "null", data |-> <<>>, noise |-> <<>>, iv |-> <<>>]

UndefinedEnvelope == [k |-> "undefined", data |-> <<>>, noise |-> <<>>, iv |-> <<>>]

\* !encryptedData || !encryptedData.data || !encryptedData.noise || !encryptedData.iv
Incomplete(env) ==
    \/ env.k # "object"
    \/ ~Present(env.data) \/ IsEmptyText(Value(env.data))
    \/ ~Present(env.noise) \/ Value(env.noise) = <<>>
    \/ ~Present(env.iv) \/ Value(env.iv) = <<>>

\* the split with the second cut taken at the middle instead of at two thirds
SplitNoiseAtHalf(noise) ==
    LET a == Len(noise) \div 3
        b == Len(noise) \div 2
    IN  <<SubSeq(noise, 1, a), SubSeq(noise, a + 1, b), SubSeq(noise, b + 1, Len(noise))>>

\* noise.slice(0, n), noise.slice(n, 2n), noise.slice(2n) with n =
\* noise.length / 3: slice truncates a fractional index
SplitNoise(noise) ==
    LET a == Len(noise) \div 3
        b == (2 * Len(noise)) \div 3
    IN  <<SubSeq(noise, 1, a), SubSeq(noise, a + 1, b), SubSeq(noise, b + 1, Len(noise))>>

\* one AES.decrypt(...).toString(Utf8) applied to every outcome so far; a
\* throw skips the rest of the try block
ThenDecrypt(outcomes, passphrase) ==
    UNION { IF o.k = "throw" THEN {o} ELSE AesDecrypt(o.v, passphrase) : o \in outcomes }

\* return decrypted || null
OrNull(text) == IF IsEmptyText(text) THEN <<>> ELSE <<text>>

\* the body of the try block: the outcomes of one call, each with the
\* returned value (<<>> is null) or the exception thrown, and whether the
\* key derivation ran
TryBody(cfg, env) ==
    IF Incomplete(env)
    THEN {[k |-> "return", v |-> <<>>, kdf |-> FALSE]}
    ELSE LET parts == SplitNoise(Value(env.noise))
             iv == Value(env.iv)
             secondKey == PBKDF2(parts[2], iv, cfg.saltRounds)
             finalKey == SHA3(Concat(parts[3], KeyToString(secondKey)))
             layer3 == AesDecrypt(Value(env.data), KeyToString(finalKey))
             layer2 == ThenDecrypt(layer3, KeyToString(secondKey))
             layer1 == ThenDecrypt(layer2, Pass(parts[1]))
         IN  { IF o.k = "throw"
               THEN [k |-> "throw", v |-> <<>>, kdf |-> TRUE]
               ELSE [k |-> "return", v |-> OrNull(o.v), kdf |-> TRUE] : o \in layer1 }

\* decryptUrl without its catch clause
Uncaught(o) == o

\* catch (error) { return null }
Catch(o) == IF o.k = "throw" THEN [k |-> "return", v |-> <<>>, kdf |-> o.kdf] ELSE o

\* decryptUrl(encryptedData): the set of outcomes the call can have
decryptUrl(cfg, env) == { Catch(o) : o \in TryBody(cfg, env) }

\* ------------------------------------------------------------------------
\* State
\* ------------------------------------------------------------------------
Engines == {"A", "B"}

Tasks == {"t1", "t2"}

VARIABLES
    engines,    \* engine name -> <<>> (not constructed) or <<configuration>>
    clock,      \* the value Date.now() returns
    rng,        \* the number of random draws made so far (the next fresh draw)
    issued,     \* the results of the successful createShortUrl calls, in order
    supplied,   \* engine name -> the options its constructor call was given
    urlMap,     \* the registry of the legacy engine: short code -> stored hash
    returned,   \* the codes shortenUrl returned: since the last clearUrls, and
                \* before it; the number of successful calls since then
    services,   \* storage service -> <<>> or <<configuration of its engine>>
    store,      \* storage service -> the records its database holds
    shortened,  \* the storage services' shortenUrl calls that returned a code
    last        \* the most recent call: its arguments and its outcome

vars == <<engines, clock, rng, issued, supplied, urlMap, returned,
          services, store, shortened, last>>

\* the state of the legacy engine and its call history
legacy == <<urlMap, returned>>

Services == {"mongo", "postgres", "redis"}

\* the state of the storage services and the history of their calls
storage == <<services, store, shortened>>

Init ==
    /\ engines = [e \in Engines |-> <<>>]
    /\ clock = 0
    /\ rng = 0
    /\ issued = <<>>
    /\ supplied = [e \in Engines |-> <<>>]
    /\ urlMap = <<>>
    /\ returned = [now |-> {}, before |-> {}, calls |-> 0]
    /\ services = [s \in Services |-> <<>>]
    /\ store = [s \in Services |-> {}]
    /\ shortened = <<>>
    /\ last = [op |-> "none"]

\* ------------------------------------------------------------------------
\* Inputs
\* ------------------------------------------------------------------------
\* the values Math.floor(Math.random() * 1000) is drawn from
DefaultSeeds == {0, 43}

\* the values a nanoid draw is taken from
NanoidDraws == {0, 1}

TestOptions == Options(<<10>>, <<6>>, <<42>>)

\* options of the engines that encrypt and decrypt: they differ in the seed
SeedOptions ==
    {Options(<<10>>, <<6>>, <<s>>) : s \in {43, 10838744}}

\* options of the engines whose envelopes are decrypted again
RoundTripOptions ==
    {TestOptions, Options(<<>>, <<>>, <<>>), Options(<<15>>, <<10>>, <<43>>)}

\* options of two engines that decrypt each other's envelopes: the second
\* differs from the first in the salt rounds, or in the seed and the code
\* length
SingleRoundOptions == Options(<<1>>, <<6>>, <<42>>)

CrossOptions ==
    {TestOptions, Options(<<1>>, <<8>>, <<43>>), Options(<<15>>, <<6>>, <<42>>),
     Options(<<-1>>, <<6>>, <<42>>)}

\* every combination of option values around the documented bounds
AllOptions ==
    {Options(sr, ul, qs) :
        sr \in {<<>>, <<0>>, <<15>>},
        ul \in {<<>>, <<-1>>, <<0>>, <<3>>, <<4>>, <<6>>, <<100>>, <<101>>},
        qs \in {<<>>, <<0>>, <<42>>, <<43>>}}

GoodUrls == {ExampleUrl, UnicodeUrl}

AcceptedUrls == {ExampleUrl, QueryUrl, UnicodeUrl, LongUrl(MAX_URL_LENGTH)}

AllUrls ==
    {NullUrl, UndefinedUrl, EmptyUrl, NotAUrl, ExampleUrl, QueryUrl, UnicodeUrl,
     SurrogateUrl, LongUrl(MAX_URL_LENGTH), LongUrl(MAX_URL_LENGTH + 1),
     LongUrl(5000), LongUrl(8212), LongNotAUrl(5000)}

\* ------------------------------------------------------------------------
\* Actions
\* ------------------------------------------------------------------------
\* new ShortyQ(options), bound to the name e
Construct(e, options, rnd) ==
    /\ engines[e] = <<>>
    /\ LET made == Constructor(options, rnd)
       IN  /\ engines' = [engines EXCEPT ![e] = made.engine]
           /\ supplied' = [supplied EXCEPT ![e] = IF made.ok THEN <<options>> ELSE <<>>]
           /\ last' = [op |-> "constructor", eng |-> e, options |-> options,
                       ok |-> made.ok, error |-> made.error]
    /\ UNCHANGED <<clock, rng, issued, legacy, storage>>

\* a millisecond passes
Tick ==
    /\ clock < MaxClock
    /\ clock' = clock + 1
    /\ UNCHANGED <<engines, rng, issued, supplied, legacy, storage, last>>

\* createShortUrl replacing the seed of the engine after the call
CreateShortUrlReseeding(t, e, url, t2, t3, draw) ==
    /\ Present(engines[e])
    /\ clock <= t2 /\ t2 <= t3 /\ t3 <= MaxClock
    /\ LET out == createShortUrl(Value(engines[e]), url, clock, t2, t3, rng, draw)
       IN  /\ rng + out.randoms <= 4 * MaxIssued
           /\ out.ok => Len(issued) < MaxIssued
           /\ out.noiseCalls = 0 => t2 = clock /\ t3 = clock
           /\ rng' = rng + out.randoms
           /\ clock' = t3
           /\ issued' = IF out.ok
                        THEN Append(issued, [task |-> t, eng |-> e, url |-> url,
                                             stamps |-> <<clock, t2, t3>>,
                                             shortCode |-> Value(out.result).shortCode,
                                             encryptedData |-> Value(out.result).encryptedData])
                        ELSE issued
           /\ last' = [op |-> "createShortUrl", task |-> t, eng |-> e, url |-> url,
                       ok |-> out.ok, error |-> out.error,
                       ret |-> IF out.ok THEN Len(issued) + 1 ELSE 0,
                       noiseCalls |-> out.noiseCalls, randoms |-> out.randoms]
    /\ engines' = [engines EXCEPT ![e] = <<[Value(@) EXCEPT !.quantumSeed = 43]>>]
    /\ UNCHANGED <<supplied, legacy, storage>>

\* task t calls createShortUrl(url) on engine e; the second and third
\* noise blocks read the clock at t2 and t3
CreateShortUrl(t, e, url, t2, t3, draw) ==
    /\ Present(engines[e])
    /\ clock <= t2 /\ t2 <= t3 /\ t3 <= MaxClock
    /\ LET out == createShortUrl(Value(engines[e]), url, clock, t2, t3, rng, draw)
       IN  /\ rng + out.randoms <= 4 * MaxIssued
           /\ out.ok => Len(issued) < MaxIssued
           /\ out.noiseCalls = 0 => t2 = clock /\ t3 = clock
           /\ rng' = rng + out.randoms
           /\ clock' = t3
           /\ issued' = IF out.ok
                        THEN Append(issued, [task |-> t, eng |-> e, url |-> url,
                                             stamps |-> <<clock, t2, t3>>,
                                             shortCode |-> Value(out.result).shortCode,
                                             encryptedData |-> Value(out.result).encryptedData])
                        ELSE issued
           /\ last' = [op |-> "createShortUrl", task |-> t, eng |-> e, url |-> url,
                       ok |-> out.ok, error |-> out.error,
                       ret |-> IF out.ok THEN Len(issued) + 1 ELSE 0,
                       noiseCalls |-> out.noiseCalls, randoms |-> out.randoms]
    /\ UNCHANGED <<engines, supplied, legacy, storage>>

\* the call before this one was decryptUrl on the same engine with the same
\* argument
Again(e, arg) ==
    /\ last.op = "decryptUrl"
    /\ last.eng = e /\ last.src = arg.src /\ last.kind = arg.kind

\* decryptUrl emptying the data field of the envelope it was given
DecryptUrlConsuming(t, e, arg) ==
    /\ Present(engines[e])
    /\ \E o \in decryptUrl(Value(engines[e]), arg.env) :
           last' = [op |-> "decryptUrl", task |-> t, eng |-> e, src |-> arg.src,
                    kind |-> arg.kind,
                    again |-> Again(e, arg),
                    k |-> o.k, result |-> o.v, kdf |-> o.kdf]
    /\ issued' = IF arg.src = 0 THEN issued
                 ELSE [issued EXCEPT ![arg.src].encryptedData.data = <<EmptyText>>]
    /\ UNCHANGED <<engines, clock, rng, supplied, legacy, storage>>

\* decryptUrl reading the noise from a buffer of the engine that every
\* encryptUrl call overwrites, instead of from its argument
DecryptUrlShared(t, e, arg) ==
    /\ Present(engines[e])
    /\ LET shared == IF issued = <<>> THEN arg.env.noise
                     ELSE issued[Len(issued)].encryptedData.noise
       IN  \E o \in decryptUrl(Value(engines[e]), [arg.env EXCEPT !.noise = shared]) :
               last' = [op |-> "decryptUrl", task |-> t, eng |-> e, src |-> arg.src,
                        kind |-> arg.kind,
                        again |-> Again(e, arg),
                        k |-> o.k, result |-> o.v, kdf |-> o.kdf]
    /\ UNCHANGED <<engines, clock, rng, issued, supplied, legacy, storage>>

\* task t calls decryptUrl(arg.env) on engine e; arg.src is the index in
\* issued of the envelope the argument was made from (0: from none) and
\* arg.kind says how it was changed
DecryptUrl(t, e, arg) ==
    /\ Present(engines[e])
    /\ \E o \in decryptUrl(Value(engines[e]), arg.env) :
           last' = [op |-> "decryptUrl", task |-> t, eng |-> e, src |-> arg.src,
                    kind |-> arg.kind,
                    again |-> Again(e, arg),
                    k |-> o.k, result |-> o.v, kdf |-> o.kdf]
    /\ UNCHANGED <<engines, clock, rng, issued, supplied, legacy, storage>>

\* ------------------------------------------------------------------------
\* Arguments of decryptUrl
\* ------------------------------------------------------------------------
\* "invalid", "somedata", "somenoise": letters after 'f' are the characters
\* 16, 17, ...
InvalidStr == <<18, 23, 31, 10, 21, 18, 13>>

SomeData == <<28, 24, 22, 14, 13, 10, 29, 10>>

SomeNoise == <<28, 24, 22, 14, 23, 24, 18, 28, 14>>

\* s with the character at position p replaced by another hex digit
Flip(s, p) == [s EXCEPT ![p] = (s[p] + 1) % 16]

TamperKinds ==
    {"data:absent", "noise:absent", "iv:absent",
     "data:empty", "noise:empty", "iv:empty",
     "data:invalid", "noise:invalid", "iv:invalid",
     "noise:layer1", "noise:layer2", "noise:layer3", "noise:longer",
     "iv:digit", "all:invalid"}

\* the envelope env with the field(s) named by kind removed or replaced
Tamper(env, kind) ==
    LET noise == Value(env.noise)
        third == Len(noise) \div 3
    IN  CASE kind = "intact" -> env
        [] kind = "data:absent" -> [env EXCEPT !.data = <<>>]
        [] kind = "noise:absent" -> [env EXCEPT !.noise = <<>>]
        [] kind = "iv:absent" -> [env EXCEPT !.iv = <<>>]
        [] kind = "data:empty" -> [env EXCEPT !.data = <<EmptyText>>]
        [] kind = "noise:empty" -> [env EXCEPT !.noise = << <<>> >>]
        [] kind = "iv:empty" -> [env EXCEPT !.iv = << <<>> >>]
        [] kind = "data:invalid" -> [env EXCEPT !.data = <<Raw(InvalidStr)>>]
        [] kind = "noise:invalid" -> [env EXCEPT !.noise = <<InvalidStr>>]
        [] kind = "iv:invalid" -> [env EXCEPT !.iv = <<InvalidStr>>]
        [] kind = "noise:layer1" -> [env EXCEPT !.noise = <<Flip(noise, 1)>>]
        [] kind = "noise:layer2" -> [env EXCEPT !.noise = <<Flip(noise, third + 1)>>]
        [] kind = "noise:layer3" -> [env EXCEPT !.noise = <<Flip(noise, 2 * third + 1)>>]
        [] kind = "noise:longer" -> [env EXCEPT !.noise = <<Append(noise, 0)>>]
        [] kind = "iv:digit" -> [env EXCEPT !.iv = <<Flip(Value(env.iv), 1)>>]
        [] kind = "all:invalid" -> Envelope(<<Raw(InvalidStr)>>, <<InvalidStr>>, <<InvalidStr>>)

\* the envelopes issued so far, unchanged
Intact ==
    {[src |-> i, kind |-> "intact", env |-> issued[i].encryptedData] : i \in 1..Len(issued)}

\* the envelopes issued so far with a field missing, emptied or replaced
Tampered ==
    {[src |-> i, kind |-> kind, env |-> Tamper(issued[i].encryptedData, kind)] :
        i \in 1..Len(issued), kind \in TamperKinds}

\* arguments made from no envelope: null, undefined, an object without iv,
\* three arbitrary strings
Foreign ==
    {[src |-> 0, kind |-> "null", env |-> NullEnvelope],
     [src |-> 0, kind |-> "undefined", env |-> UndefinedEnvelope],
     [src |-> 0, kind |-> "partial", env |-> Envelope(<<Raw(SomeData)>>, <<SomeNoise>>, <<>>)],
     [src |-> 0, kind |-> "invalid", env |-> Envelope(<<Raw(InvalidStr)>>, <<InvalidStr>>, <<InvalidStr>>)]}

\* ------------------------------------------------------------------------
\* Specifications
\* ------------------------------------------------------------------------
\* Two engines that differ in the seed, used by two tasks; each call reads
\* the clock within one millisecond
Next ==
    \/ Construct("A", TestOptions, 0)
    \/ \E o \in SeedOptions : Construct("B", o, 0)
    \/ Tick
    \/ \E t \in Tasks, e \in Engines, u \in GoodUrls :
           CreateShortUrl(t, e, u, clock, clock, 0)
    \/ \E a \in Intact : DecryptUrl(issued[a.src].task, issued[a.src].eng, a)

Spec == Init /\ [][Next]_vars

\* The constructor over every combination of options, and the short codes
\* of the engine it made
NextCtor ==
    \/ \E o \in AllOptions, rnd \in DefaultSeeds : Construct("A", o, rnd)
    \/ \E draw \in NanoidDraws : CreateShortUrl("t1", "A", ExampleUrl, clock, clock, draw)

SpecCtor == Init /\ [][NextCtor]_vars

\* createShortUrl over every kind of argument
NextUrl ==
    \/ Construct("A", TestOptions, 0)
    \/ Tick
    \/ \E u \in AllUrls : CreateShortUrl("t1", "A", u, clock, clock, 0)

SpecUrl == Init /\ [][NextUrl]_vars

\* Encryption, with the clock advancing between the three noise blocks, and
\* decryption of the envelope by the engine that made it
NextRound ==
    \/ \E o \in RoundTripOptions : Construct("A", o, 0)
    \/ Tick
    \/ \E u \in AcceptedUrls, t2, t3 \in 0..MaxClock :
           CreateShortUrl("t1", "A", u, t2, t3, 0)
    \/ \E a \in Intact : DecryptUrl("t1", "A", a)

SpecRound == Init /\ [][NextRound]_vars

\* decryptUrl over missing, empty and replaced fields
NextTamper ==
    \/ Construct("A", TestOptions, 0)
    \/ Tick
    \/ CreateShortUrl("t1", "A", ExampleUrl, clock, clock, 0)
    \/ \E a \in Intact \cup Tampered \cup Foreign : DecryptUrl("t1", "A", a)

SpecTamper == Init /\ [][NextTamper]_vars

\* Envelopes of one engine given to another; failing and successful calls
NextCross ==
    \/ Construct("A", SingleRoundOptions, 0)
    \/ \E o \in CrossOptions : Construct("B", o, 0)
    \/ Tick
    \/ \E e \in Engines, u \in {ExampleUrl, NotAUrl} :
           CreateShortUrl("t1", e, u, clock, clock, 0)
    \/ \E e \in Engines, a \in Intact \cup Foreign : DecryptUrl("t1", e, a)

SpecCross == Init /\ [][NextCross]_vars

\* ------------------------------------------------------------------------
\* The legacy engine: an in-process registry of short codes
\* ------------------------------------------------------------------------
\* new ShortyQ(options) of the legacy class: no range check
LegacyConstructor(options, rnd) ==
    [saltRounds |-> JsOr(options.saltRounds, DEFAULT_SALT_ROUNDS),
     urlLength |-> JsOr(options.urlLength, DEFAULT_URL_LENGTH),
     quantumSeed |-> JsOr(options.quantumSeed, rnd)]

\* the legacy engine of the model: new ShortyQ(), the random seed being 43
LegacyEngine == LegacyConstructor(Options(<<>>, <<>>, <<>>), 43)

\* generateQuantumNoise() of the legacy class: byte i from sin(quantumSeed * i)
LegacyNoise ==
    HexOfBytes([k \in 1..NOISE_BYTES |->
                   ToUint8(JsRemFloor(SinTable[LegacyEngine.quantumSeed][k][1]))])

RIPEMD160(message) == [k |-> "ripemd160", of |-> message]

\* encryptUrl(url) of the legacy class: a hash of the salted ciphertext
legacyEncryptUrl(url, r) ==
    RIPEMD160(SHA3(AesEncrypt(Concat(url, LegacyNoise), Pass(LegacyNoise), r)))

\* the checks of shortenUrl and the exception of the first encryption;
\* "" when the call goes on
LegacyValidate(url) ==
    IF ~Truthy(url) THEN ERR_EMPTY
    ELSE IF ~url.parses THEN ERR_FORMAT
    ELSE IF ~url.usv THEN ERR_URI
    ELSE ""

\* the values a nanoid draw of the legacy engine is taken from
LegacyDraws == 0..2

\* nanoid(this.urlLength) for each draw
LegacyCodes == [d \in LegacyDraws |-> NanoId(LegacyEngine.urlLength, d)]

\* the successive draws of one shortenUrl call: the first, then one per
\* turn of the while loop
LegacyDrawSeqs == UNION {[1..n -> LegacyDraws] : n \in 1..3}

\* "nonexistent"
Nonexistent == <<23, 24, 23, 14, 33, 18, 28, 29, 14, 23, 29>>

\* Map.set(key, value)
MapSet(map, key, value) ==
    [c \in (DOMAIN map) \cup {key} |-> IF c = key THEN value ELSE map[c]]

\* shortenUrl that stores the first code drawn, without the while loop
ShortenUrlNoRetry(url, draws) ==
    /\ IF LegacyValidate(url) # ""
       THEN /\ last' = [op |-> "shortenUrl", url |-> url, ok |-> FALSE,
                        error |-> LegacyValidate(url), code |-> <<>>, draws |-> 0]
            /\ UNCHANGED <<rng, urlMap, returned>>
       ELSE /\ rng < MaxIssued + 2
            /\ Len(draws) = 1
            /\ LET shortCode == LegacyCodes[draws[1]]
               IN  /\ urlMap' = MapSet(urlMap, shortCode, legacyEncryptUrl(url, rng))
                   /\ returned' = [returned EXCEPT !.now = @ \cup {shortCode},
                                                   !.calls = @ + 1]
                   /\ last' = [op |-> "shortenUrl", url |-> url, ok |-> TRUE,
                               error |-> "", code |-> <<shortCode>>,
                               draws |-> Len(draws)]
            /\ rng' = rng + 1
    /\ UNCHANGED <<engines, clock, issued, supplied, storage>>

\* shortenUrl(url): the call draws codes until one is not a key of the
\* registry (all draws but the last are keys, the last is not), stores the
\* hash under it and returns it
ShortenUrl(url, draws) ==
    /\ IF LegacyValidate(url) # ""
       THEN /\ last' = [op |-> "shortenUrl", url |-> url, ok |-> FALSE,
                        error |-> LegacyValidate(url), code |-> <<>>, draws |-> 0]
            /\ UNCHANGED <<rng, urlMap, returned>>
       ELSE /\ rng < MaxIssued + 2
            /\ \A k \in 1..(Len(draws) - 1) : LegacyCodes[draws[k]] \in DOMAIN urlMap
            /\ LegacyCodes[draws[Len(draws)]] \notin DOMAIN urlMap
            /\ LET shortCode == LegacyCodes[draws[Len(draws)]]
               IN  /\ urlMap' = MapSet(urlMap, shortCode, legacyEncryptUrl(url, rng))
                   /\ returned' = [returned EXCEPT !.now = @ \cup {shortCode},
                                                   !.calls = @ + 1]
                   /\ last' = [op |-> "shortenUrl", url |-> url, ok |-> TRUE,
                               error |-> "", code |-> <<shortCode>>,
                               draws |-> Len(draws)]
            /\ rng' = rng + 1
    /\ UNCHANGED <<engines, clock, issued, supplied, storage>>

\* getOriginalUrl(shortCode): this.urlMap.get(shortCode) || null
GetOriginalUrl(shortCode) ==
    /\ last' = [op |-> "getOriginalUrl", code |-> shortCode,
                result |-> IF shortCode \in DOMAIN urlMap
                           THEN OrNull(urlMap[shortCode]) ELSE <<>>]
    /\ UNCHANGED <<engines, clock, rng, issued, supplied, legacy, storage>>

\* clearUrls leaving the registry as it is
ClearUrlsKeeping ==
    /\ urlMap' = urlMap
    /\ returned' = [now |-> {}, before |-> returned.before \cup returned.now, calls |-> 0]
    /\ last' = [op |-> "clearUrls"]
    /\ UNCHANGED <<engines, clock, rng, issued, supplied, storage>>

\* clearUrls()
ClearUrls ==
    /\ urlMap' = <<>>
    /\ returned' = [now |-> {}, before |-> returned.before \cup returned.now, calls |-> 0]
    /\ last' = [op |-> "clearUrls"]
    /\ UNCHANGED <<engines, clock, rng, issued, supplied, storage>>

\* The legacy engine: shortenUrl, getOriginalUrl and clearUrls in any order
NextLegacy ==
    \/ \E url \in {ExampleUrl, EmptyUrl, NotAUrl}, draws \in LegacyDrawSeqs :
           ShortenUrl(url, draws)
    \/ \E d \in LegacyDraws : GetOriginalUrl(LegacyCodes[d])
    \/ GetOriginalUrl(Nonexistent)
    \/ ClearUrls

SpecLegacy == Init /\ [][NextLegacy]_vars

\* ------------------------------------------------------------------------
\* Storage services: MongoURLService, PostgresURLService, RedisURLService
\* ------------------------------------------------------------------------
\* 2592000000 / 1000: the default lifetime of a Redis key, in seconds (the
\* literal in milliseconds is wider than the integers of the model; its
\* quotient by 1000 is exact)
DEFAULT_EXPIRY_SECONDS == 2592000

MS_PER_SECOND == 1000

ERR_DUPLICATE == "E11000 duplicate key error"

\* JavaScript truthiness of expiresIn: an absent expiresIn and 0 are falsy
HasExpiry(expiresIn) == Present(expiresIn) /\ Value(expiresIn) # 0

\* expiresIn ? new Date(Date.now() + expiresIn) : undefined
ExpiresAt(now, expiresIn) ==
    IF HasExpiry(expiresIn) THEN <<now + Value(expiresIn)>> ELSE <<>>

\* Math.floor((expiresIn || 2592000000) / 1000)
RedisTtl(expiresIn) ==
    IF HasExpiry(expiresIn)
    THEN Value(expiresIn) \div MS_PER_SECOND
    ELSE DEFAULT_EXPIRY_SECONDS

\* the records of service s stored under shortCode
Found(s, shortCode) == {rec \in store[s] : rec.shortCode = shortCode}

\* { shortCode, $or: [{ expiresAt: { $exists: false } },
\*                    { expiresAt: { $gt: new Date() } }] }
MongoMatches(rec, shortCode, now) ==
    /\ rec.shortCode = shortCode
    /\ \/ ~Present(rec.expiresAt)
       \/ Value(rec.expiresAt) > now

\* where: { shortCode, expiresAt: { $gt: new Date() } }: a comparison with
\* a NULL expiresAt selects no row
PostgresMatches(rec, shortCode, now) ==
    /\ rec.shortCode = shortCode
    /\ Present(rec.expiresAt)
    /\ Value(rec.expiresAt) > now

\* a key set with EXPIRE key ttl at setAt exists until ttl seconds have
\* passed
RedisExists(rec, shortCode, now) ==
    /\ rec.shortCode = shortCode
    /\ (now - rec.setAt) \div MS_PER_SECOND < rec.ttl

\* the history after the code of service s stopped naming what an earlier
\* call stored: it was deleted or issued again
Retire(s, shortCode) ==
    [i \in DOMAIN shortened |->
        IF shortened[i].svc = s /\ shortened[i].code = shortCode
        THEN [shortened[i] EXCEPT !.live = FALSE]
        ELSE shortened[i]]

\* the history after shortenUrl(url, expiresIn) of service s returned
\* shortCode
Journal(s, url, expiresIn, shortCode) ==
    Append(Retire(s, shortCode),
           [svc |-> s, url |-> url, expiresIn |-> expiresIn, code |-> shortCode,
            at |-> clock, live |-> TRUE])

\* this.shortyQ.createShortUrl(url) in service s
Created(s, url, draw) ==
    createShortUrl(Value(services[s]), url, clock, clock, clock, rng, draw)

\* the value getOriginalUrl returns for the records its query selected:
\* null without a record, else this.shortyQ.decryptUrl(record.encryptedData)
Resolved(s, records) ==
    IF records = {}
    THEN {<<>>}
    ELSE {o.v : o \in UNION {decryptUrl(Value(services[s]), rec.encryptedData) :
                                 rec \in records}}

\* new MongoURLService(options), new PostgresURLService(options),
\* new RedisURLService({}, options): this.shortyQ = new ShortyQ(options);
\* a program makes one storage service
NewService(s, options, rnd) ==
    /\ \A other \in Services : services[other] = <<>>
    /\ LET made == Constructor(options, rnd)
       IN  /\ services' = [services EXCEPT ![s] = made.engine]
           /\ last' = [op |-> "newService", svc |-> s, ok |-> made.ok,
                       error |-> made.error]
    /\ UNCHANGED <<engines, clock, rng, issued, supplied, legacy, store, shortened>>

\* MongoURLService.shortenUrl(url, expiresIn): ShortenedURL.create rejects
\* a shortCode the collection already holds (unique index)
MongoShortenUrl(url, expiresIn, draw) ==
    /\ Present(services["mongo"])
    /\ LET out == Created("mongo", url, draw)
           duplicate == out.ok /\ Found("mongo", Value(out.result).shortCode) # {}
           ok == out.ok /\ ~duplicate
       IN  /\ rng + out.randoms <= 4 * MaxIssued
           /\ ok => Len(shortened) < MaxIssued
           /\ rng' = rng + out.randoms
           /\ store' = IF ok
                       THEN [store EXCEPT !["mongo"] = @ \cup
                                {[shortCode |-> Value(out.result).shortCode,
                                  encryptedData |-> Value(out.result).encryptedData,
                                  createdAt |-> clock,
                                  expiresAt |-> ExpiresAt(clock, expiresIn)]}]
                       ELSE store
           /\ shortened' = IF ok
                           THEN Journal("mongo", url, expiresIn, Value(out.result).shortCode)
                           ELSE shortened
           /\ last' = [op |-> "shortenUrl", svc |-> "mongo", url |-> url,
                       expiresIn |-> expiresIn, ok |-> ok,
                       error |-> IF duplicate THEN ERR_DUPLICATE ELSE out.error,
                       code |-> IF ok THEN <<Value(out.result).shortCode>> ELSE <<>>]
    /\ UNCHANGED <<engines, clock, issued, supplied, legacy, services>>

\* MongoURLService.getOriginalUrl(shortCode)
MongoGetOriginalUrl(shortCode) ==
    /\ Present(services["mongo"])
    /\ \E v \in Resolved("mongo", {rec \in store["mongo"] :
                                       MongoMatches(rec, shortCode, clock)}) :
           last' = [op |-> "getOriginalUrl", svc |-> "mongo", code |-> shortCode,
                    at |-> clock, result |-> v]
    /\ UNCHANGED <<engines, clock, rng, issued, supplied, legacy, storage>>

\* MongoURLService.deleteUrl(shortCode)
MongoDeleteUrl(shortCode) ==
    /\ Present(services["mongo"])
    /\ store' = [store EXCEPT !["mongo"] = @ \ Found("mongo", shortCode)]
    /\ shortened' = Retire("mongo", shortCode)
    /\ last' = [op |-> "deleteUrl", svc |-> "mongo", code |-> shortCode]
    /\ UNCHANGED <<engines, clock, rng, issued, supplied, legacy, services>>

\* the TTL index { expiresAt: 1 }, { expireAfterSeconds: 0 }: the server
\* removes, at some time after it, a document whose expiresAt has passed
MongoTtlIndex ==
    /\ \E rec \in store["mongo"] :
           /\ Present(rec.expiresAt)
           /\ Value(rec.expiresAt) <= clock
           /\ store' = [store EXCEPT !["mongo"] = @ \ {rec}]
    /\ UNCHANGED <<engines, clock, rng, issued, supplied, legacy, services,
                   shortened, last>>

\* PostgresURLService.shortenUrl(url, expiresIn): save() inserts the row,
\* or updates the row that has this shortCode with the columns that were
\* assigned
PostgresShortenUrl(url, expiresIn, draw) ==
    /\ Present(services["postgres"])
    /\ LET out == Created("postgres", url, draw)
           old == IF out.ok THEN Found("postgres", Value(out.result).shortCode) ELSE {}
           row == [shortCode |-> Value(out.result).shortCode,
                   encryptedData |-> Value(out.result).encryptedData,
                   createdAt |-> IF old = {} THEN clock
                                 ELSE (CHOOSE rec \in old : TRUE).createdAt,
                   expiresAt |-> IF HasExpiry(expiresIn) \/ old = {}
                                 THEN ExpiresAt(clock, expiresIn)
                                 ELSE (CHOOSE rec \in old : TRUE).expiresAt]
       IN  /\ rng + out.randoms <= 4 * MaxIssued
           /\ out.ok => Len(shortened) < MaxIssued
           /\ rng' = rng + out.randoms
           /\ store' = IF out.ok
                       THEN [store EXCEPT !["postgres"] = (@ \ old) \cup {row}]
                       ELSE store
           /\ shortened' = IF out.ok
                           THEN Journal("postgres", url, expiresIn,
                                        Value(out.result).shortCode)
                           ELSE shortened
           /\ last' = [op |-> "shortenUrl", svc |-> "postgres", url |-> url,
                       expiresIn |-> expiresIn, ok |-> out.ok, error |-> out.error,
                       code |-> IF out.ok THEN <<Value(out.result).shortCode>> ELSE <<>>]
    /\ UNCHANGED <<engines, clock, issued, supplied, legacy, services>>

\* PostgresURLService.getOriginalUrl(shortCode)
PostgresGetOriginalUrl(shortCode) ==
    /\ Present(services["postgres"])
    /\ \E v \in Resolved("postgres", {rec \in store["postgres"] :
                                          PostgresMatches(rec, shortCode, clock)}) :
           last' = [op |-> "getOriginalUrl", svc |-> "postgres", code |-> shortCode,
                    at |-> clock, result |-> v]
    /\ UNCHANGED <<engines, clock, rng, issued, supplied, legacy, storage>>

\* PostgresURLService.deleteUrl(shortCode)
PostgresDeleteUrl(shortCode) ==
    /\ Present(services["postgres"])
    /\ store' = [store EXCEPT !["postgres"] = @ \ Found("postgres", shortCode)]
    /\ shortened' = Retire("postgres", shortCode)
    /\ last' = [op |-> "deleteUrl", svc |-> "postgres", code |-> shortCode]
    /\ UNCHANGED <<engines, clock, rng, issued, supplied, legacy, services>>

\* PostgresURLService.cleanup(): delete where expiresAt < new Date()
PostgresCleanup ==
    /\ Present(services["postgres"])
    /\ store' = [store EXCEPT !["postgres"] =
                    {rec \in @ : ~(Present(rec.expiresAt) /\ Value(rec.expiresAt) < clock)}]
    /\ last' = [op |-> "cleanup", svc |-> "postgres"]
    /\ UNCHANGED <<engines, clock, rng, issued, supplied, legacy, services, shortened>>

\* RedisURLService.shortenUrl(url, expiresIn): in one transaction HMSET
\* writes the three fields of the key and EXPIRE sets its lifetime; EXPIRE
\* with a lifetime that is not positive deletes the key
RedisShortenUrl(url, expiresIn, draw) ==
    /\ Present(services["redis"])
    /\ LET out == Created("redis", url, draw)
           old == IF out.ok THEN Found("redis", Value(out.result).shortCode) ELSE {}
           ttl == RedisTtl(expiresIn)
           key == [shortCode |-> Value(out.result).shortCode,
                   encryptedData |->
                       Envelope(<<Value(Value(out.result).encryptedData.data)>>,
                                <<Value(Value(out.result).encryptedData.noise)>>,
                                <<Value(Value(out.result).encryptedData.iv)>>),
                   ttl |-> ttl,
                   setAt |-> clock]
       IN  /\ rng + out.randoms <= 4 * MaxIssued
           /\ out.ok => Len(shortened) < MaxIssued
           /\ rng' = rng + out.randoms
           /\ store' = IF out.ok
                       THEN [store EXCEPT !["redis"] =
                                (@ \ old) \cup (IF ttl > 0 THEN {key} ELSE {})]
                       ELSE store
           /\ shortened' = IF out.ok
                           THEN Journal("redis", url, expiresIn,
                                        Value(out.result).shortCode)
                           ELSE shortened
           /\ last' = [op |-> "shortenUrl", svc |-> "redis", url |-> url,
                       expiresIn |-> expiresIn, ok |-> out.ok, error |-> out.error,
                       code |-> IF out.ok THEN <<Value(out.result).shortCode>> ELSE <<>>,
                       ttl |-> IF out.ok THEN <<ttl>> ELSE <<>>]
    /\ UNCHANGED <<engines, clock, issued, supplied, legacy, services>>

\* RedisURLService.getOriginalUrl(shortCode): HGETALL of a key that does
\* not exist gives no fields
RedisGetOriginalUrl(shortCode) ==
    /\ Present(services["redis"])
    /\ \E v \in Resolved("redis", {rec \in store["redis"] :
                                       RedisExists(rec, shortCode, clock)}) :
           last' = [op |-> "getOriginalUrl", svc |-> "redis", code |-> shortCode,
                    at |-> clock, result |-> v]
    /\ UNCHANGED <<engines, clock, rng, issued, supplied, legacy, storage>>

\* RedisURLService.deleteUrl(shortCode)
RedisDeleteUrl(shortCode) ==
    /\ Present(services["redis"])
    /\ store' = [store EXCEPT !["redis"] = @ \ Found("redis", shortCode)]
    /\ shortened' = Retire("redis", shortCode)
    /\ last' = [op |-> "deleteUrl", svc |-> "redis", code |-> shortCode]
    /\ UNCHANGED <<engines, clock, rng, issued, supplied, legacy, services>>

\* MongoURLService.cleanup() and RedisURLService.cleanup(): empty bodies
Cleanup(s) ==
    /\ Present(services[s])
    /\ last' = [op |-> "cleanup", svc |-> s]
    /\ UNCHANGED <<engines, clock, rng, issued, supplied, legacy, storage>>

\* the values of expiresIn: none, 0, and 1, 500 and 3600 milliseconds
ExpiresIns == {<<>>, <<0>>, <<1>>, <<500>>, <<3600>>}

\* the configuration the services are made with
StoreOptions == TestOptions

\* the short codes a service made with StoreOptions issues
StoreCodes == {NanoIds[Value(StoreOptions.urlLength)][draw] : draw \in NanoidDraws}

NextStore ==
    \/ \E s \in Services : NewService(s, StoreOptions, 0)
    \/ Tick
    \/ \E u \in {ExampleUrl, NotAUrl}, x \in ExpiresIns, draw \in NanoidDraws :
           MongoShortenUrl(u, x, draw)
    \/ \E c \in StoreCodes : MongoGetOriginalUrl(c)
    \/ \E c \in StoreCodes : MongoDeleteUrl(c)
    \/ MongoTtlIndex
    \/ \E u \in {ExampleUrl, NotAUrl}, x \in ExpiresIns, draw \in NanoidDraws :
           PostgresShortenUrl(u, x, draw)
    \/ \E c \in StoreCodes : PostgresGetOriginalUrl(c)
    \/ \E c \in StoreCodes : PostgresDeleteUrl(c)
    \/ PostgresCleanup
    \/ \E u \in {ExampleUrl, NotAUrl}, x \in ExpiresIns, draw \in NanoidDraws :
           RedisShortenUrl(u, x, draw)
    \/ \E c \in StoreCodes : RedisGetOriginalUrl(c)
    \/ \E c \in StoreCodes : RedisDeleteUrl(c)
    \/ \E s \in {"mongo", "redis"} : Cleanup(s)

SpecStore == Init /\ [][NextStore]_vars

\* ------------------------------------------------------------------------
\* Properties
\* ------------------------------------------------------------------------
\* the argument of the most recent decryptUrl call
LastArg ==
    IF last.src = 0
    THEN (CHOOSE a \in Foreign : a.kind = last.kind).env
    ELSE Tamper(issued[last.src].encryptedData, last.kind)

\* C1: round trip. Whenever an engine decrypts, unchanged, an envelope that
\* its own createShortUrl returned for the URL u, decryptUrl returns exactly
\* u, whatever the accepted options of the engine, the accepted URL, and the
\* clock values read by the three noise blocks.
RoundTrip ==
    (last.op = "decryptUrl" /\ last.kind = "intact" /\ last.eng = issued[last.src].eng)
        => (last.k = "return" /\ last.result = <<issued[last.src].url>>)

\* a non-ASCII URL encrypted while the clock advanced between the noise
\* blocks, by an engine with 15 salt rounds, has been decrypted by it
RoundTripReached ==
    /\ last.op = "decryptUrl" /\ last.kind = "intact"
    /\ last.eng = issued[last.src].eng
    /\ issued[last.src].url = UnicodeUrl
    /\ issued[last.src].stamps[1] # issued[last.src].stamps[3]
    /\ Value(engines[last.eng]).saltRounds = 15
    /\ last.result = <<UnicodeUrl>>

\* an envelope, or one of its three fields, is absent or empty
AbsentOrEmpty(env) ==
    \/ env.k \in {"null", "undefined"}
    \/ \E f \in {env.data, env.noise, env.iv} : f = <<>> \/ f = <<EmptyText>> \/ f = << <<>> >>

\* C2: decryptUrl is total. Every call, whatever its argument (null,
\* undefined, an envelope with a field missing or empty, arbitrary strings
\* in the fields), returns null or a string and no exception leaves it; when
\* the envelope or one of its fields is absent or empty the result is null
\* and no key derivation has run.
DecryptTotal ==
    last.op = "decryptUrl" =>
        /\ last.k = "return"
        /\ last.result = <<>> \/ Len(last.result) = 1
        /\ AbsentOrEmpty(LastArg) => (last.result = <<>> /\ ~last.kdf)

\* decryptUrl was given three arbitrary strings, ran the key derivation,
\* and returned null
DecryptTotalReached ==
    /\ last.op = "decryptUrl" /\ last.kind = "invalid"
    /\ ~AbsentOrEmpty(LastArg)
    /\ last.kdf /\ last.k = "return" /\ last.result = <<>>

\* C3 (as claimed): when the first third of the noise field of an issued
\* envelope (the layer-1 key) is replaced by other hex digits, decryptUrl
\* returns null.
TamperedNoiseGivesNull ==
    (last.op = "decryptUrl" /\ last.kind = "noise:layer1") => last.result = <<>>

\* the argument is null, undefined or the empty string
EmptyArgument(url) == url \in {NullUrl, UndefinedUrl, EmptyUrl}

\* C4: createShortUrl reports the first failing check in the order empty,
\* malformed, too long: an empty, null or undefined argument fails with
\* 'URL cannot be empty'; a non-empty argument that does not parse fails
\* with 'Invalid URL format' even when it is longer than 4096 characters;
\* the too-long error is only reported for a non-empty URL that parses.
ValidationOrder ==
    last.op = "createShortUrl" =>
        /\ EmptyArgument(last.url) => (~last.ok /\ last.error = ERR_EMPTY)
        /\ (~EmptyArgument(last.url) /\ ~last.url.parses)
               => (~last.ok /\ last.error = ERR_FORMAT)
        /\ last.error = ERR_TOO_LONG
               => (~EmptyArgument(last.url) /\ last.url.parses /\ last.url.len > MAX_URL_LENGTH)

\* a string of 5000 characters that does not parse was rejected as malformed
ValidationOrderReached ==
    /\ last.op = "createShortUrl"
    /\ last.url = LongNotAUrl(5000)
    /\ ~last.ok /\ last.error = ERR_FORMAT

\* C5 (as claimed): a non-empty URL that parses is accepted if and only if
\* its length is at most 4096, and is rejected with the too-long error
\* otherwise.
LengthBoundary ==
    (last.op = "createShortUrl" /\ ~EmptyArgument(last.url) /\ last.url.parses) =>
        /\ last.ok <=> last.url.len <= MAX_URL_LENGTH
        /\ last.url.len > MAX_URL_LENGTH => last.error = ERR_TOO_LONG

\* C6 (as claimed): a constructor call that supplies a code length fails
\* with the 'at least 4' error when it is below 4, fails with the 'cannot
\* exceed 100' error when it is above 100, and succeeds otherwise; it never
\* succeeds with a supplied length outside 4..100.
CodeLengthValidated ==
    (last.op = "constructor" /\ Present(last.options.urlLength)) =>
        LET supplied_length == Value(last.options.urlLength)
        IN  /\ supplied_length < MIN_URL_LENGTH
                   => (~last.ok /\ last.error = ERR_MIN_LENGTH)
            /\ supplied_length > MAX_CODE_LENGTH
                   => (~last.ok /\ last.error = ERR_MAX_LENGTH)
            /\ supplied_length \in MIN_URL_LENGTH..MAX_CODE_LENGTH => last.ok

\* C7 (as claimed): the short code of every successful createShortUrl has
\* the length the engine's constructor was given, and length 8 when it was
\* given none.
ShortCodeLength ==
    (last.op = "createShortUrl" /\ last.ok) =>
        LET options == Value(supplied[last.eng])
        IN  Len(issued[last.ret].shortCode) =
                IF Present(options.urlLength) THEN Value(options.urlLength)
                ELSE DEFAULT_URL_LENGTH

\* C8 (as claimed): any two envelopes that the same engine returned for
\* the same URL differ in data, in noise and in iv, however close in time
\* the two calls were.
FreshEnvelopes ==
    \A i, j \in 1..Len(issued) :
        (i < j /\ issued[i].eng = issued[j].eng /\ issued[i].url = issued[j].url) =>
            /\ issued[i].encryptedData.data # issued[j].encryptedData.data
            /\ issued[i].encryptedData.noise # issued[j].encryptedData.noise
            /\ issued[i].encryptedData.iv # issued[j].encryptedData.iv

\* two configurations that differ in the seed and in nothing else
DifferOnlyInSeed(c, d) ==
    /\ c.quantumSeed # d.quantumSeed
    /\ c.saltRounds = d.saltRounds
    /\ c.urlLength = d.urlLength

\* C9 (as claimed): two engines that differ only in quantumSeed return, for
\* the same URL, envelopes with different noise, also when both read the
\* same clock value.
SeedSensitive ==
    \A i, j \in 1..Len(issued) :
        (/\ issued[i].url = issued[j].url
         /\ issued[i].eng # issued[j].eng
         /\ DifferOnlyInSeed(Value(engines[issued[i].eng]), Value(engines[issued[j].eng])))
            => issued[i].encryptedData.noise # issued[j].encryptedData.noise

\* C10: concurrent use of an engine. In every interleaving of the calls of
\* the tasks, every envelope issued so far still decrypts, on its engine, to
\* the URL it was created from and to nothing else, and every decryptUrl
\* call a task made on an envelope returned that URL: what the other tasks
\* called in between does not matter.
ConcurrentSafe ==
    /\ \A i \in 1..Len(issued) :
           decryptUrl(Value(engines[issued[i].eng]), issued[i].encryptedData)
               = {[k |-> "return", v |-> <<issued[i].url>>, kdf |-> TRUE]}
    /\ (last.op = "decryptUrl" /\ last.kind = "intact")
           => last.result = <<issued[last.src].url>>

\* a task decrypted its envelope after another task had, later and at a
\* later clock value, created an envelope on the same engine
ConcurrentSafeReached ==
    /\ last.op = "decryptUrl" /\ last.kind = "intact" /\ last.src = 1
    /\ Len(issued) = 2
    /\ issued[2].task # last.task
    /\ issued[2].eng = last.eng
    /\ issued[2].stamps[1] # issued[1].stamps[1]
    /\ last.result = <<issued[1].url>>

\* C11 (as claimed): two createShortUrl calls on the same engine for the
\* same URL return different short codes.
DistinctShortCodes ==
    \A i, j \in 1..Len(issued) :
        (i < j /\ issued[i].eng = issued[j].eng /\ issued[i].url = issued[j].url)
            => issued[i].shortCode # issued[j].shortCode

\* C12: decryptUrl is a pure, repeatable read. A decryptUrl call changes
\* neither the engine nor the envelope it was given nor anything else; a
\* call repeated on the same unchanged envelope returns what the call before
\* it returned; and no call of any kind changes what decryptUrl returns for
\* an envelope issued earlier.
DecryptPure ==
    [][/\ (last'.op = "decryptUrl" /\ last' # last)
              => UNCHANGED <<engines, clock, rng, issued, supplied, legacy>>
       /\ (last'.op = "decryptUrl" /\ last'.again /\ last'.kind = "intact")
              => last'.result = last.result
       /\ \A i \in 1..Len(issued), e \in Engines :
              Present(engines[e]) =>
                  decryptUrl(Value(engines'[e]), issued'[i].encryptedData)
                      = decryptUrl(Value(engines[e]), issued[i].encryptedData)]_vars

\* decryptUrl was called a second time in a row on the first envelope, after
\* a second envelope had been created, and returned the URL again
DecryptPureReached ==
    /\ last.op = "decryptUrl" /\ last.kind = "intact" /\ last.again
    /\ last.src = 1 /\ Len(issued) = 2
    /\ last.result = <<issued[1].url>>

\* every character of s is a hex digit
IsHex(s) == \A k \in 1..Len(s) : s[k] \in 0..15

\* C13: every envelope returned by createShortUrl has a non-empty data
\* field, an iv of 32 hex characters (16 bytes) and a noise field of three
\* blocks of 64 hex characters (its length is a multiple of 3), and
\* decryptUrl's split of the noise into thirds gives back the layer-1,
\* layer-2 and layer-3 blocks generated at encryption, in this order.
EnvelopeShape ==
    \A i \in 1..Len(issued) :
        LET env == issued[i].encryptedData
            noise == Value(env.noise)
            iv == Value(env.iv)
            seed == Value(engines[issued[i].eng]).quantumSeed
            stamps == issued[i].stamps
        IN  /\ env.k = "object"
            /\ Present(env.data) /\ ~IsEmptyText(Value(env.data))
            /\ Present(env.iv) /\ Len(iv) = 2 * IV_BYTES /\ IsHex(iv)
            /\ Present(env.noise) /\ Len(noise) = 3 * (2 * NOISE_BYTES)
            /\ Len(noise) % 3 = 0 /\ IsHex(noise)
            /\ SplitNoise(noise) = <<NoiseAt(seed, stamps[1]),
                                     NoiseAt(seed, stamps[2]),
                                     NoiseAt(seed, stamps[3])>>

\* an envelope was issued whose second and third noise blocks differ, and
\* the split returns them where they were put
EnvelopeShapeReached ==
    \E i \in 1..Len(issued) :
        LET parts == SplitNoise(Value(issued[i].encryptedData.noise))
        IN  /\ issued[i].stamps[2] # issued[i].stamps[3]
            /\ parts[2] # parts[3]
            /\ parts[3] = NoiseAt(Value(engines[issued[i].eng]).quantumSeed,
                                   issued[i].stamps[3])

\* C14 (as claimed): an envelope given to an engine whose saltRounds
\* differs from that of the engine that created it does not decrypt to the
\* URL (the claim: it decrypts to null).
OtherRoundsNeverDecrypt ==
    (/\ last.op = "decryptUrl" /\ last.kind = "intact"
     /\ Value(engines[last.eng]).saltRounds
            # Value(engines[issued[last.src].eng]).saltRounds)
        => last.result # <<issued[last.src].url>>

\* C15: legacy registry. Every shortenUrl call that returns stores its code
\* under a key that was not in the registry before the call, adds exactly
\* one entry and leaves every earlier entry as it was; so the registry holds
\* exactly the codes returned since the last clearUrls, one entry per
\* successful call (the codes are pairwise distinct).
RegistryGrows ==
    /\ [](DOMAIN urlMap = returned.now /\ Cardinality(DOMAIN urlMap) = returned.calls)
    /\ [][(last'.op = "shortenUrl" /\ last'.ok /\ urlMap' # urlMap) =>
              /\ Value(last'.code) \notin DOMAIN urlMap
              /\ DOMAIN urlMap' = (DOMAIN urlMap) \cup {Value(last'.code)}
              /\ Cardinality(DOMAIN urlMap') = Cardinality(DOMAIN urlMap) + 1
              /\ \A c \in DOMAIN urlMap : urlMap'[c] = urlMap[c]]_vars

\* shortenUrl first drew a registered code, drew again, and returned a
\* second code for the same URL while the first is still registered
RegistryGrowsReached ==
    /\ last.op = "shortenUrl" /\ last.ok /\ last.draws > 1
    /\ Cardinality(DOMAIN urlMap) = 2 /\ returned.calls = 2
    /\ \A c \in DOMAIN urlMap : urlMap[c].of.message.pt.head = ExampleUrl

\* C16 (as claimed): legacy registry. getOriginalUrl(c) returns a non-null
\* value exactly when c was returned by a shortenUrl call made after the
\* most recent clearUrls; it returns null for a code never issued and for
\* every code issued before a clearUrls.
LookupAsClaimed ==
    last.op = "getOriginalUrl" =>
        /\ last.result # <<>> <=> last.code \in returned.now
        /\ last.code \notin (returned.now \cup returned.before) => last.result = <<>>
        /\ last.code \in returned.before => last.result = <<>>

\* C16 (amended): getOriginalUrl(c) returns a non-null value exactly when c
\* was returned by a shortenUrl call made after the most recent clearUrls;
\* it returns null for a code never issued and for every code issued before
\* a clearUrls and not issued again since.
LookupSinceClear ==
    last.op = "getOriginalUrl" =>
        /\ last.result # <<>> <=> last.code \in returned.now
        /\ last.code \notin (returned.now \cup returned.before) => last.result = <<>>
        /\ last.code \in (returned.before \ returned.now) => last.result = <<>>

\* a code issued before clearUrls was looked up after it, while another
\* code issued since is registered, and the result was null
LookupSinceClearReached ==
    /\ last.op = "getOriginalUrl"
    /\ last.code \in (returned.before \ returned.now)
    /\ returned.now # {}
    /\ last.result = <<>>

\* the byte that the hex digits 2j-1 and 2j of s spell
ByteAt(s, j) == 16 * s[2 * j - 1] + s[2 * j]

\* C17: each of the three noise blocks of an envelope is 32 bytes in 64 hex
\* characters, and byte i lies in 0..255 and equals floor(sin(seed * i +
\* time) * 10000) reduced by the mathematical, non-negative modulus 256,
\* also when the sine is negative.
NoiseBytes ==
    \A n \in 1..Len(issued) :
        LET noise == Value(issued[n].encryptedData.noise)
            seed == Value(engines[issued[n].eng]).quantumSeed
        IN  /\ Len(noise) = 3 * (2 * NOISE_BYTES)
            /\ \A b \in 1..3, i \in 0..(NOISE_BYTES - 1) :
                   LET byte == ByteAt(noise, NOISE_BYTES * (b - 1) + i + 1)
                   IN  /\ byte \in 0..(BYTE_MOD - 1)
                       /\ byte = SinTable[seed][i + 1][issued[n].stamps[b] + 1] % BYTE_MOD

\* an envelope was issued with a byte in the third noise block that comes
\* from a negative sine value and is not zero
NoiseBytesReached ==
    \E n \in 1..Len(issued), i \in 0..(NOISE_BYTES - 1) :
        LET noise == Value(issued[n].encryptedData.noise)
            seed == Value(engines[issued[n].eng]).quantumSeed
            byte == ByteAt(noise, NOISE_BYTES * 2 + i + 1)
        IN  /\ SinTable[seed][i + 1][issued[n].stamps[3] + 1] < 0
            /\ byte > 0
            /\ byte = SinTable[seed][i + 1][issued[n].stamps[3] + 1] % BYTE_MOD

\* C18 (as claimed): the three noise blocks N1, N2, N3 generated inside one
\* encryption are pairwise different.
DistinctBlocks ==
    \A n \in 1..Len(issued) :
        LET parts == SplitNoise(Value(issued[n].encryptedData.noise))
        IN  parts[1] # parts[2] /\ parts[2] # parts[3] /\ parts[1] # parts[3]

\* the URL fails one of the three checks of createShortUrl
FailsValidation(url) ==
    EmptyArgument(url) \/ ~url.parses \/ url.len > MAX_URL_LENGTH

\* C19: a createShortUrl call whose URL fails one of the three checks
\* returns nothing but the error: it generates no noise, draws no IV and no
\* salt, returns no envelope and no short code, and leaves the clock, the
\* random source and the envelopes issued so far as they were.
ValidationFirst ==
    [][(last' # last /\ last'.op = "createShortUrl" /\ FailsValidation(last'.url)) =>
           /\ ~last'.ok /\ last'.ret = 0
           /\ last'.noiseCalls = 0 /\ last'.randoms = 0
           /\ UNCHANGED <<engines, clock, rng, issued>>]_vars

\* after an envelope was issued, a call with a parsing URL of 4097
\* characters failed without having drawn anything
ValidationFirstReached ==
    /\ last.op = "createShortUrl" /\ ~last.ok
    /\ last.url = LongUrl(MAX_URL_LENGTH + 1)
    /\ last.error = ERR_TOO_LONG
    /\ last.noiseCalls = 0 /\ last.randoms = 0
    /\ Len(issued) = 1 /\ rng = 4

\* C20: the canonical engine is stateless across calls. An engine consists
\* of saltRounds, urlLength and quantumSeed and of nothing else (no record
\* of URLs, envelopes or codes); the three are what its constructor call
\* computed, and no later step, a successful or failing createShortUrl or
\* decryptUrl on this or another engine included, changes them.
Stateless ==
    /\ [](\A e \in Engines :
              Present(engines[e]) =>
                  /\ DOMAIN Value(engines[e]) = {"saltRounds", "urlLength", "quantumSeed"}
                  /\ engines[e] = Constructor(Value(supplied[e]), 0).engine)
    /\ [][\A e \in Engines : Present(engines[e]) => engines'[e] = engines[e]]_vars

\* an engine that issued an envelope and then rejected a URL still has the
\* configuration its constructor computed
StatelessReached ==
    /\ last.op = "createShortUrl" /\ ~last.ok
    /\ \E n \in 1..Len(issued) : issued[n].eng = last.eng
    /\ engines[last.eng] = Constructor(Value(supplied[last.eng]), 0).engine

\* C21 (as claimed): the engine a constructor call made has the saltRounds
\* the call supplied (taken over the documented range, 1 and above) and the
\* quantumSeed the call supplied, whatever its value, 0 included; a default
\* is used only for an absent option.
OptionsUsed ==
    \A e \in Engines :
        Present(engines[e]) =>
            LET options == Value(supplied[e])
                cfg == Value(engines[e])
            IN  /\ (Present(options.saltRounds) /\ Value(options.saltRounds) >= 1)
                       => cfg.saltRounds = Value(options.saltRounds)
                /\ Present(options.quantumSeed)
                       => cfg.quantumSeed = Value(options.quantumSeed)

\* the calls of the history that the most recent getOriginalUrl asked
\* about: shortenUrl returned the code on that service, and since then no
\* deleteUrl took the code and no later shortenUrl returned it again
Asked ==
    {i \in DOMAIN shortened :
        /\ shortened[i].live
        /\ shortened[i].svc = last.svc
        /\ shortened[i].code = last.code}

\* C22 (as claimed): in each storage service, after shortenUrl(url,
\* expiresIn) with expiresIn > 0 returned a code that was not deleted,
\* getOriginalUrl of the code returns url at a time before the creation time
\* plus expiresIn, and null at a time after it.
ExpiresWhenAsked ==
    last.op = "getOriginalUrl" =>
        \A i \in Asked :
            (Present(shortened[i].expiresIn) /\ Value(shortened[i].expiresIn) > 0) =>
                /\ last.at < shortened[i].at + Value(shortened[i].expiresIn)
                       => last.result = <<shortened[i].url>>
                /\ last.at > shortened[i].at + Value(shortened[i].expiresIn)
                       => last.result = <<>>

\* C23 (as claimed): in each storage service, after shortenUrl(url) without
\* expiresIn returned a code that was not deleted, getOriginalUrl of the
\* code returns url at every later time.
NeverExpires ==
    last.op = "getOriginalUrl" =>
        \A i \in Asked :
            ~Present(shortened[i].expiresIn) => last.result = <<shortened[i].url>>

\* C24 (as claimed): RedisURLService.shortenUrl(url, 3600) gives the key a
\* lifetime of one hour, a call without expiresIn gives it thirty days, and
\* a call with any expiresIn gives it at least one second.
RedisLifetime ==
    (last.op = "shortenUrl" /\ last.svc = "redis" /\ last.ok) =>
        /\ last.expiresIn = <<3600>> => last.ttl = <<60 * 60>>
        /\ ~Present(last.expiresIn) => last.ttl = <<30 * 24 * 60 * 60>>
        /\ Present(last.expiresIn) => Value(last.ttl) >= 1

====
